---------------------------- MODULE Spec2Model ----------------------------
(***************************************************************************)
(* A model of the baseball-catcher game: the Sprite / Ball / Player        *)
(* entities (src/game/objects/sprite.js, src/game/characters/*.js) and the *)
(* Game class of src/game/main.js: its play() tick, its input handlers,    *)
(* pause / mute, the deferred timers and the frame scheduling.             *)
(*                                                                         *)
(* Numbers.  The program computes in floating point; the model computes in *)
(* integers.  The configuration below is chosen so that every coordinate   *)
(* the game reaches is an integer number of pixels: a commanded axis is a  *)
(* fraction n/d (a record [n, d]; d = 0 stands for the Infinity or NaN a   *)
(* division by zero gives), candidates are compared with the bounds by     *)
(* cross-multiplication, and ArithmeticExact states that every paddle     *)
(* move the game makes is free of rounding in the doubles of the code and  *)
(* lands on a whole pixel.                                                 *)
(*                                                                         *)
(* Time.  One unit of the clock is MsPerUnit milliseconds.  host.lag is    *)
(* Date.now() - frame.time; a timer holds the units left until it is due.  *)
(* host.events counts the events of the movement keys, of the pointer and  *)
(* of the settings editor the page has received since it was loaded.       *)
(*                                                                         *)
(* Fields the program writes and never reads (px, py, vx, vy, radius,      *)
(* direction, frame.count as a number, state.backgroundMusic, the sound    *)
(* playlist) are not part of the state.                                    *)
(***************************************************************************)
EXTENDS Integers, Sequences, FiniteSets, TLC

VARIABLES state, input, input2, player1, player2, ball, frame, overlay, host,
          sp, spMoved, bt

vars == <<state, input, input2, player1, player2, ball, frame, overlay, host,
          sp, spMoved, bt>>

gameVars == <<state, input, input2, player1, player2, ball, frame, overlay, host>>

spriteVars == <<sp, spMoved>>

(***************************************************************************)
(* Configuration (the settings bundle and the window) and the derived      *)
(* screen.                                                                 *)
(***************************************************************************)
CanvasWidth == 24

CanvasHeight == 176

CfgPlayerWidth == 20

CfgPlayerHeight == 500

CfgBallSize == 20

CfgBallSpeed == 3

CanvasOffsetTop == 0

MsPerUnit == 1000

PaddleSpeed == 50

P1SpeedUp == 1

P2SpeedUp == 10

ResetDelay == 1

LaunchDelay == 3

\* the values config.settings.winScore takes
WinScores == {0, 1}

\* the pointer positions (clientY) the mouse and the touch events report: the
\* mouse at the bottom edge of the window, the finger at its top edge
MouseYs == {CanvasHeight}

TouchYs == {0}

\* bounds of the exploration
MaxLag == 1

MaxSpeed == 3

MaxTimers == 2

MaxLoops == 1

\* the counted events (movement keys, pointer moves, changes of the
\* settings) the exploration sends to one page; the start, relaunch, pause
\* and mute controls and the resize are not counted
MaxEvents == 2

\* the counted events per page where the clock is fair
MaxFairEvents == 1

\* screen.scale * 1000 = ((width + height) / 2) * 0.003 * 1000
ScreenScaleMilli == ((CanvasWidth + CanvasHeight) * 3) \div 2

Screen ==
  [top |-> 0, bottom |-> CanvasHeight, left |-> 0, right |-> CanvasWidth,
   centerX |-> CanvasWidth \div 2, centerY |-> CanvasHeight \div 2]

\* a length of the settings multiplied by screen.scale
Scaled(n) == (n * ScreenScaleMilli) \div 1000

\* frame.scale for a frame.rate of r clock units: screen.scale * rate * 0.01
FrameScale(r) == (ScreenScaleMilli * r * MsPerUnit) \div 100000

(***************************************************************************)
(* Sprite                                                                  *)
(***************************************************************************)
Half(n) == n \div 2

Abs(n) == IF n < 0 THEN -n ELSE n

\* an axis value: the fraction n/d
Ax(n, d) == [n |-> n, d |-> d]

Whole(n) == Ax(n, 1)

SetX(s, x) == [s EXCEPT !.x = x, !.cx = x + Half(s.width)]

SetY(s, y) == [s EXCEPT !.y = y, !.cy = y + Half(s.height)]

\* Sprite.move without the snap: the candidate is taken as it is
MoveAxisNoSnap(pos, a, speed, m, lo, hi) ==
  IF a.d = 0 THEN hi
  ELSE IF a.n = 0 THEN pos
  ELSE pos + (a.n * speed * m) \div a.d

\* One axis of Sprite.move: the candidate pos + a * speed * m for a = n/d,
\* kept when it lies in [lo, hi] and snapped to lo or hi otherwise.  With
\* d = 0 the axis is Infinity, -Infinity or NaN: the candidate is -Infinity
\* where the axis and speed * m have opposite signs, which is < lo, and is
\* Infinity or NaN otherwise, and both of these fail the bounds test and
\* are not < lo.
MoveAxis(pos, a, speed, m, lo, hi) ==
  IF a.d = 0
    THEN IF (a.n < 0 /\ speed * m > 0) \/ (a.n > 0 /\ speed * m < 0)
           THEN lo ELSE hi
    ELSE LET n    == IF a.d < 0 THEN -a.n ELSE a.n
             d    == Abs(a.d)
             cand == IF n = 0 THEN pos * d ELSE pos * d + n * speed * m
         IN IF cand >= lo * d /\ cand <= hi * d
              THEN cand \div d
              ELSE IF cand < lo * d THEN lo ELSE hi

\* the odd factor of a positive number
RECURSIVE OddPart(_)
OddPart(d) == IF d % 2 = 0 THEN OddPart(d \div 2) ELSE d

\* Whether the integers above compute that axis of the move as the doubles
\* of the code do, and give a whole number of pixels.  The code multiplies
\* the double nearest to n/d: it is n/d itself only where the reduced
\* denominator is a power of two, and the products and the sum are then
\* exact; for another fraction the candidate of the code is off by a
\* rounding error (0 + (1/6) * 50 * 3 is 24.999999999999996), which matters
\* only where the candidate is kept.  So a kept candidate has to be the
\* position itself (an axis of 0, or speed * m = 0) or come of such a
\* fraction and be whole; a candidate outside the bounds is outside by 1/d
\* or more and snaps whatever the rounding.  The condition is sufficient,
\* not necessary: (1/3) * 3 is 1 in doubles too.
AxisExact(pos, a, speed, m, lo, hi) ==
  IF a.d = 0 THEN TRUE
  ELSE LET n    == IF a.d < 0 THEN -a.n ELSE a.n
           d    == Abs(a.d)
           cand == IF n = 0 THEN pos * d ELSE pos * d + n * speed * m
       IN (cand >= lo * d /\ cand <= hi * d) =>
             \/ n = 0 \/ speed * m = 0
             \/ n % OddPart(d) = 0 /\ cand % d = 0

Move(s, ax, ay, m, b) ==
  LET nx == MoveAxis(s.x, ax, s.speed, m, b.left, b.right - s.width)
      ny == MoveAxis(s.y, ay, s.speed, m, b.top, b.bottom - s.height)
  IN SetY(SetX(s, nx), ny)

NewSprite(x, y, width, height, speed) ==
  [x |-> x, y |-> y, cx |-> x + Half(width), cy |-> y + Half(height),
   width |-> width, height |-> height, speed |-> IF speed = 0 THEN 1 ELSE speed]


(***************************************************************************)
(* Ball                                                                    *)
(***************************************************************************)
\* stop() that zeroes the direction and leaves launched as it is
BallStopDirectionOnly(b) == [b EXCEPT !.dx = 0]

\* stop()
BallStop(b) == [b EXCEPT !.launched = FALSE, !.dx = 0]

\* the body of launch without the jump of x
BallLaunchNoJump(b, totalOffset, dx) == [b EXCEPT !.launched = TRUE, !.dx = dx]

\* the body of launch that runs at once (no delay) or when its timer fires:
\* x is written directly, not through setX
BallLaunchNow(b, totalOffset, dx) ==
  [b EXCEPT !.launched = TRUE, !.x = b.x + totalOffset, !.dx = dx]

BallTotalOffset(b, dx, offset) == (offset + b.width) * dx

LaunchTimer(delay, totalOffset, dx) ==
  [kind |-> "launch", left |-> delay, off |-> totalOffset, dx |-> dx, live |-> TRUE]

ResetTimer == [kind |-> "reset", left |-> ResetDelay, off |-> 0, dx |-> 0, live |-> TRUE]

\* Ball.move without the test of launched
BallMoveAlways(b, m, bounds) == Move(b, Whole(b.dx), Whole(b.dy), m, bounds)

BallMove(b, m, bounds) ==
  IF ~b.launched THEN b ELSE Move(b, Whole(b.dx), Whole(b.dy), m, bounds)

\* collidesWith that counts touching edges
CollidesWithTouching(b, entity) ==
  LET distanceX == Abs(entity.cx - b.cx)
      onY       == b.cy >= entity.y /\ b.cy <= entity.y + entity.height
  IN onY /\ 2 * distanceX <= entity.width + b.width

CollidesWith(b, entity) ==
  LET distanceX == Abs(entity.cx - b.cx)
      onY       == b.cy > entity.y /\ b.cy < entity.y + entity.height
  IN onY /\ 2 * distanceX < entity.width + b.width

\* the name of the first entity of the list the ball collides with, or "none"
CollisionsWith(b, entities) ==
  LET hits == {i \in 1..Len(entities) : CollidesWith(b, entities[i])}
  IN IF hits = {} THEN "none"
     ELSE entities[CHOOSE i \in hits : \A j \in hits : i <= j].name

(***************************************************************************)
(* Game: construction                                                      *)
(***************************************************************************)
PWidth == Scaled(CfgPlayerWidth)

PHeight == Scaled(CfgPlayerHeight)

BallWidth == Scaled(CfgBallSize)

BallBounds ==
  [top |-> 0, right |-> Screen.right + BallWidth,
   left |-> Screen.left - BallWidth, bottom |-> Screen.bottom]

NewPlayer(name, x) ==
  [name |-> name, score |-> 0] @@
  NewSprite(x, Screen.centerY - Half(PHeight), PWidth, PHeight, PaddleSpeed)

NewBall(y) ==
  [dx |-> -1, dy |-> 0, launched |-> FALSE] @@
  NewSprite(Screen.right + BallWidth, y, BallWidth, BallWidth, CfgBallSpeed)

\* the Game object after its constructor and the first load(): muted is read
\* from local storage, winScore from the settings
NewGame(muted, winScore) ==
  [state   |-> [current |-> "loading", prev |-> "loading", paused |-> FALSE,
                muted |-> muted, winScore |-> winScore],
   input   |-> [current |-> "keyboard", up |-> FALSE, down |-> FALSE,
                mouseY |-> 0, touchY |-> 0],
   input2  |-> [active |-> FALSE, up |-> FALSE, down |-> FALSE],
   player1 |-> NewPlayer("player1", Screen.right - PWidth),
   player2 |-> NewPlayer("player2", 0),
   ball    |-> NewBall(Screen.centerY - Half(PHeight)),
   frame   |-> [rate |-> 0, scale |-> 0],
   overlay |-> [button |-> FALSE],
   host    |-> [created |-> FALSE, lag |-> 0, timers |-> <<>>, rafs |-> 0,
                latest |-> FALSE, loads |-> 1, events |-> 0]]

Game ==
  [state |-> state, input |-> input, input2 |-> input2, player1 |-> player1,
   player2 |-> player2, ball |-> ball, frame |-> frame, overlay |-> overlay,
   host |-> host]

\* the variables hold the fields of G
Holds(G) ==
  /\ state = G.state
  /\ input = G.input
  /\ input2 = G.input2
  /\ player1 = G.player1
  /\ player2 = G.player2
  /\ ball = G.ball
  /\ frame = G.frame
  /\ overlay = G.overlay
  /\ host = G.host

Becomes(G) ==
  /\ state' = G.state
  /\ input' = G.input
  /\ input2' = G.input2
  /\ player1' = G.player1
  /\ player2' = G.player2
  /\ ball' = G.ball
  /\ frame' = G.frame
  /\ overlay' = G.overlay
  /\ host' = G.host

\* a write of current that leaves prev as it is
SetCurrentKeepsPrev(G, c) == [G EXCEPT !.state.current = c]

\* setState({current: c}): the prior current is recorded as prev
SetCurrent(G, c) ==
  [G EXCEPT !.state.prev = G.state.current, !.state.current = c]

\* setState({winScore: w})
SetWinScore(G, w) ==
  [G EXCEPT !.state.prev = G.state.current, !.state.winScore = w]

\* requestFrame(next, resumed): scale is computed from the rate of the frame
\* object being replaced
RequestFrame(G, resumed) ==
  [G EXCEPT !.frame = [rate  |-> IF resumed THEN 0 ELSE G.host.lag,
                       scale |-> FrameScale(G.frame.rate)],
            !.host.lag = 0,
            !.host.rafs = G.host.rafs + 1,
            !.host.latest = TRUE]

\* cancelFrame(): cancels the callback frame.count names, if it is pending
CancelFrame(G) ==
  IF G.host.latest
    THEN [G EXCEPT !.host.rafs = G.host.rafs - 1, !.host.latest = FALSE]
    ELSE G

\* setTimeout
Schedule(G, t) == [G EXCEPT !.host.timers = Append(G.host.timers, t)]

\* document.location.reload(): a new page, a new Game; the muted preference
\* is in local storage and the settings are read again
Reset(G) == NewGame(G.state.muted, G.state.winScore)

(***************************************************************************)
(* Game.play(): one tick                                                   *)
(***************************************************************************)
\* the digital intent: up pressed is -1, down pressed is +1
KeyAxis(kb) == (IF kb.up THEN -1 ELSE 0) + (IF kb.down THEN 1 ELSE 0)

\* the pointer intent diffY / 100 for the pointer at clientY
PointerAxis(p, clientY) ==
  Ax((clientY - CanvasOffsetTop) - p.y - Half(p.height), 100)

\* parseInt(this.config.settings): the settings object is no number
Difficulty == [nan |-> TRUE, v |-> 0]

\* a < b and a > b as JavaScript compares an axis a with a finite b = n/d,
\* d > 0: -Infinity (a.d = 0, a.n < 0) is less and Infinity (a.d = 0,
\* a.n > 0) is greater than every b, and NaN (0/0) is neither
AxLess(a, b) ==
  IF a.d = 0 THEN a.n < 0
  ELSE (IF a.d < 0 THEN -a.n ELSE a.n) * b.d < b.n * Abs(a.d)

AxGreater(a, b) ==
  IF a.d = 0 THEN a.n > 0
  ELSE (IF a.d < 0 THEN -a.n ELSE a.n) * b.d > b.n * Abs(a.d)

\* boundBy(n, upper, lower) with upper = limit / 2 and lower = -limit / 2:
\* first n < lower ? lower : n, then n > upper ? upper : n.  No comparison
\* with NaN is true, so a NaN limit bounds nothing
BoundBy(a, limit) ==
  IF limit.nan THEN a
  ELSE LET lower == Ax(-limit.v, 2)
           upper == Ax(limit.v, 2)
           n1    == IF AxLess(a, lower) THEN lower ELSE a
       IN IF AxGreater(n1, upper) THEN upper ELSE n1

\* the axis the computer commands: (ball.y / 2 - player2.y) / (ball.x * 2)
ComputerAxis(b, p) == BoundBy(Ax(b.y - 2 * p.y, 4 * b.x), Difficulty)

\* the test of the computer branch without the look at input2.active
ComputerMovesBesideHuman(G) == G.ball.launched /\ G.ball.dx < 0

ComputerMoves(G) == ~G.input2.active /\ G.ball.launched /\ G.ball.dx < 0

\* the win check at the head of the play block
CheckWinner(G) ==
  LET G1 == IF G.player1.score = G.state.winScore
              THEN SetCurrent(G, "win-player1") ELSE G
  IN IF G1.player2.score = G1.state.winScore
       THEN SetCurrent(G1, "win-player2") ELSE G1

MovePlayer1(G) ==
  LET p == G.player1
  IN [G EXCEPT !.player1 =
       CASE G.input.current = "keyboard" ->
              Move(p, Whole(0), Whole(KeyAxis(G.input)), G.frame.scale, Screen)
         [] G.input.current = "mouse" ->
              Move(p, Whole(0), PointerAxis(p, G.input.mouseY), 1, Screen)
         [] G.input.current = "touch" ->
              Move(p, Whole(0), PointerAxis(p, G.input.touchY), 1, Screen)]

MovePlayer2(G) ==
  LET p == G.player2
  IN [G EXCEPT !.player2 =
       IF ComputerMoves(G)
         THEN Move(p, Whole(0), ComputerAxis(G.ball, p), G.frame.scale, Screen)
       ELSE IF G.input2.active
         THEN Move(p, Whole(0), Whole(KeyAxis(G.input2)), G.frame.scale, Screen)
       ELSE p]

BounceY(G) ==
  LET b == G.ball
  IN IF b.y = Screen.top \/ b.y = Screen.bottom - b.height
       THEN [G EXCEPT !.ball.dy = -b.dy] ELSE G

Collided(G) == CollisionsWith(G.ball, <<G.player1, G.player2>>)

HitPlayer1(G, collided) ==
  IF collided = "player1"
    THEN [G EXCEPT !.ball.dx = -1, !.ball.speed = G.ball.speed + P1SpeedUp]
    ELSE G

\* the player2 branch of the collision handler for a launched ball only
HitPlayer2IfLaunched(G, collided) ==
  IF collided = "player2" /\ G.ball.launched
    THEN Schedule([G EXCEPT !.ball = BallStop([G.ball EXCEPT
                                         !.dx = 1,
                                         !.speed = G.ball.speed + P2SpeedUp])],
                  ResetTimer)
    ELSE G

HitPlayer2(G, collided) ==
  IF collided = "player2"
    THEN Schedule([G EXCEPT !.ball = BallStop([G.ball EXCEPT
                                         !.dx = 1,
                                         !.speed = G.ball.speed + P2SpeedUp])],
                  ResetTimer)
    ELSE G

AtLeftBound(b) == b.launched /\ b.x <= BallBounds.left

AtRightBound(b) == b.launched /\ b.x + b.width >= BallBounds.right

\* ball.launch(delay, dx, offset) with a delay
LaunchLater(G, delay, dx, offset) ==
  Schedule([G EXCEPT !.ball = BallStop(G.ball)],
           LaunchTimer(delay, BallTotalOffset(G.ball, dx, offset), dx))

\* ball.launch(null, dx, offset)
LaunchAtOnce(G, dx, offset) ==
  [G EXCEPT !.ball = BallLaunchNow(BallStop(G.ball),
                                   BallTotalOffset(G.ball, dx, offset), dx)]

ScoreLeft(G) ==
  IF AtLeftBound(G.ball)
    THEN LET G1 == [G EXCEPT !.player2.score = G.player2.score + 1,
                             !.ball.speed = CfgBallSpeed]
             G2 == IF G1.input2.active
                     THEN [G1 EXCEPT !.ball = BallStop(G1.ball)]
                     ELSE LaunchLater([G1 EXCEPT !.ball = SetY(G1.ball, G1.player2.y)],
                                      LaunchDelay, 1, G1.player2.width)
         IN Schedule(G2, ResetTimer)
    ELSE G

\* the right-bound branch without ball.stop()
ScoreRightMoving(G) ==
  IF AtRightBound(G.ball)
    THEN [G EXCEPT !.player2.score = G.player2.score + 1,
                   !.ball.speed = CfgBallSpeed]
    ELSE G

ScoreRight(G) ==
  IF AtRightBound(G.ball)
    THEN [G EXCEPT !.player2.score = G.player2.score + 1,
                   !.ball = BallStop([G.ball EXCEPT !.speed = CfgBallSpeed])]
    ELSE G

\* the play block with the win check after the scoring
PlayBlockCheckLast(G) ==
  LET G1 == IF G.state.prev = "ready" THEN [G EXCEPT !.overlay.button = FALSE] ELSE G
      G3 == MovePlayer2(MovePlayer1(G1))
      G4 == BounceY(G3)
      G5 == HitPlayer2(HitPlayer1(G4, Collided(G4)), Collided(G4))
      G6 == CheckWinner(ScoreRight(ScoreLeft(G5)))
  IN [G6 EXCEPT !.ball = BallMove(G6.ball, G6.frame.scale, BallBounds)]

\* the block of play() for current = 'play'
PlayBlock(G) ==
  LET G1 == IF G.state.prev = "ready" THEN [G EXCEPT !.overlay.button = FALSE] ELSE G
      G2 == CheckWinner(G1)
      G3 == MovePlayer2(MovePlayer1(G2))
      G4 == BounceY(G3)
      G5 == HitPlayer2(HitPlayer1(G4, Collided(G4)), Collided(G4))
      G6 == ScoreRight(ScoreLeft(G5))
  IN [G6 EXCEPT !.ball = BallMove(G6.ball, G6.frame.scale, BallBounds)]

\* the block of play() for the first frame after loading
ReadyBlock(G) ==
  IF G.state.current = "ready" /\ G.state.prev = "loading"
    THEN SetCurrent([G EXCEPT !.overlay.button = TRUE], "ready")
    ELSE G

Play(G) ==
  LET G1 == ReadyBlock(G)
      G2 == IF G1.state.current = "play" THEN PlayBlock(G1) ELSE G1
  IN RequestFrame(G2, FALSE)

\* create() that also builds the input of the second player anew
CreateClearsInput2(G) ==
  LET fresh == NewGame(G.state.muted, G.state.winScore)
  IN SetCurrent([G EXCEPT !.player1 = fresh.player1,
                          !.player2 = fresh.player2,
                          !.ball = fresh.ball,
                          !.input2 = fresh.input2,
                          !.host.created = TRUE,
                          !.host.timers =
                             [i \in 1..Len(G.host.timers) |->
                                [G.host.timers[i] EXCEPT
                                   !.live = G.host.timers[i].kind # "launch"]]],
                "ready")

\* create(): new players and ball; a launch timer of the old ball no longer
\* reaches the ball of the game
Create(G) ==
  LET fresh == NewGame(G.state.muted, G.state.winScore)
  IN SetCurrent([G EXCEPT !.player1 = fresh.player1,
                          !.player2 = fresh.player2,
                          !.ball = fresh.ball,
                          !.host.created = TRUE,
                          !.host.timers =
                             [i \in 1..Len(G.host.timers) |->
                                [G.host.timers[i] EXCEPT
                                   !.live = G.host.timers[i].kind # "launch"]]],
                "ready")

(***************************************************************************)
(* Game: helpers and event handlers                                        *)
(***************************************************************************)
IsWin(c) == c \in {"win-player1", "win-player2"}

\* relaunchBall(side) without the look at ball.launched
RelaunchBallUnguarded(G, side) ==
  LET G1 == [G EXCEPT !.ball.speed = CfgBallSpeed]
  IN IF side = "right"
       THEN LaunchAtOnce([G1 EXCEPT !.ball = SetY(G1.ball, G1.player1.y)],
                         -1, G1.player1.width)
       ELSE LaunchAtOnce([G1 EXCEPT !.ball = SetY(G1.ball, G1.player2.y)],
                         1, G1.player2.width)

\* relaunchBall(side)
RelaunchBall(G, side) ==
  IF G.ball.launched THEN G
  ELSE LET G1 == [G EXCEPT !.ball.speed = CfgBallSpeed]
       IN IF side = "right"
            THEN LaunchAtOnce([G1 EXCEPT !.ball = SetY(G1.ball, G1.player1.y)],
                              -1, G1.player1.width)
            ELSE LaunchAtOnce([G1 EXCEPT !.ball = SetY(G1.ball, G1.player2.y)],
                              1, G1.player2.width)

\* the stopped ball lies on the right half of the screen
OnRightSide(G) == G.ball.launched = FALSE /\ G.ball.x > Screen.centerX

\* pause() that clears the pending timers as it pauses
PauseDropsTimers(G) ==
  IF G.state.current # "play" THEN G
  ELSE LET G1 == [G EXCEPT !.state.paused = ~G.state.paused]
       IN IF G1.state.paused
            THEN CancelFrame([G1 EXCEPT !.host.timers = <<>>])
            ELSE RequestFrame(G1, TRUE)

\* pause()
Pause(G) ==
  IF G.state.current # "play" THEN G
  ELSE LET G1 == [G EXCEPT !.state.paused = ~G.state.paused]
       IN IF G1.state.paused THEN CancelFrame(G1) ELSE RequestFrame(G1, TRUE)

\* mute() that builds the players and the ball anew, as a settings change does
MuteRecreates(G) == Create([G EXCEPT !.state.muted = ~G.state.muted])

\* mute()
Mute(G) == [G EXCEPT !.state.muted = ~G.state.muted]

Targets == {"mute", "pause", "button", "overlay"}

\* handleClicks(target)
HandleClicks(G, target) ==
  IF G.state.current = "loading" THEN G
  ELSE IF target = "mute" THEN Mute(G)
  ELSE IF target = "pause" THEN Pause(G)
  ELSE IF target = "button" THEN SetCurrent(G, "play")
  ELSE LET G1 == IF G.state.current = "play" /\ OnRightSide(G)
                   THEN RelaunchBall(G, "right") ELSE G
       IN IF IsWin(G1.state.current) THEN Reset(G1) ELSE G1

Codes == {"ArrowUp", "ArrowDown", "Space", "KeyW", "KeyS", "ShiftLeft", "KeyP"}

\* handleKeyboardInput(type, code).  Before create() there is no ball: the
\* Space and ShiftLeft branches then throw on this.ball, which ends the
\* handler with what it has written so far.
HandleKeyboardInput(G, type, code) ==
  LET G1 == [G EXCEPT !.input.current = "keyboard"]
      G2 == IF type = "keydown"
              THEN [G1 EXCEPT !.input.up = IF code = "ArrowUp" THEN TRUE ELSE @,
                              !.input.down = IF code = "ArrowDown" THEN TRUE ELSE @]
              ELSE [G1 EXCEPT !.input.up = IF code = "ArrowUp" THEN FALSE ELSE @,
                              !.input.down = IF code = "ArrowDown" THEN FALSE ELSE @]
      G3 == IF type = "keyup" /\ code = "Space"
               /\ G2.state.current = "play" /\ OnRightSide(G2)
              THEN RelaunchBall(G2, "right") ELSE G2
      G4 == IF type = "keydown"
              THEN [G3 EXCEPT !.input2.up = IF code = "KeyW" THEN TRUE ELSE @,
                              !.input2.down = IF code = "KeyS" THEN TRUE ELSE @]
              ELSE [G3 EXCEPT !.input2.up = IF code = "KeyW" THEN FALSE ELSE @,
                              !.input2.down = IF code = "KeyS" THEN FALSE ELSE @]
      G5 == IF type = "keydown" /\ code = "ShiftLeft"
               /\ G4.state.current = "play" /\ ~OnRightSide(G4)
              THEN RelaunchBall(G4, "left") ELSE G4
      G6 == IF type = "keydown" /\ code \in {"KeyW", "KeyS"} /\ ~G5.input2.active
              THEN [G5 EXCEPT !.input2.active = TRUE] ELSE G5
      G7 == IF type = "keydown" /\ code = "KeyP" THEN Pause(G6) ELSE G6
      throws == ~G.host.created /\ \/ type = "keyup" /\ code = "Space"
                                   \/ type = "keydown" /\ code = "ShiftLeft"
  IN IF throws THEN G2
     ELSE IF type = "keyup" /\ code = "Space" /\ IsWin(G7.state.current)
       THEN Reset(G7) ELSE G7

HandleMouseMove(G, y) == [G EXCEPT !.input.current = "mouse", !.input.mouseY = y]

HandleTouchMove(G, y) == [G EXCEPT !.input.current = "touch", !.input.touchY = y]

\* the Koji 'change' listener: the setting is written, the frame cancelled
\* and load() called, which sets winScore at once and create()s when the
\* assets have arrived
ConfigChange(G, winScore) ==
  LET G1 == SetWinScore(CancelFrame(G), winScore)
  IN [G1 EXCEPT !.host.loads = G1.host.loads + 1]

\* the assets of one load() have arrived: create(), whose last line is play()
Loaded(G) ==
  Play(Create([G EXCEPT !.host.loads = G.host.loads - 1]))

\* the timer at index i fires
Fire(G, i) ==
  LET t  == G.host.timers[i]
      G1 == [G EXCEPT !.host.timers =
               [j \in 1..(Len(G.host.timers) - 1) |->
                  IF j < i THEN G.host.timers[j] ELSE G.host.timers[j + 1]]]
  IN IF t.kind = "reset" THEN Reset(G1)
     ELSE IF t.live THEN [G1 EXCEPT !.ball = BallLaunchNow(G1.ball, t.off, t.dx)]
     ELSE G1

DueTimers(G) == {i \in 1..Len(G.host.timers) : G.host.timers[i].left = 0}

(***************************************************************************)
(* The game as a state machine.  Every listener the page registers is an   *)
(* action: any key, the mouse, the finger, a click on any target, a resize *)
(* and a change of the settings can follow one another in one session.     *)
(***************************************************************************)
NoSprite == [x |-> 0, y |-> 0, cx |-> 0, cy |-> 0, width |-> 0, height |-> 0,
             speed |-> 1, top |-> 0, right |-> 0, bottom |-> 0, left |-> 0]

\* no ball on its own
NoBall == [op |-> "none"]

\* the keys among the counted events
Counted == {"ArrowUp", "ArrowDown", "KeyW", "KeyS"}

\* the page takes one more counted event: the game as the handler finds it
Received == [Game EXCEPT !.host.events = host.events + 1]

\* a new page: the muted preference of local storage and the winScore of
\* the settings are either way
Init ==
  /\ \E muted \in BOOLEAN, winScore \in WinScores :
        Holds(NewGame(muted, winScore))
  /\ sp = NoSprite
  /\ spMoved = FALSE
  /\ bt = NoBall

\* a requestAnimationFrame callback runs play().  The exploration stops
\* where a moving ball is faster than MaxSpeed, a stopped ball faster than
\* that by one paddle-2 increment, or more than MaxTimers timers are pending.
Tick ==
  /\ host.rafs > 0
  /\ ball.speed <= (IF ball.launched THEN MaxSpeed ELSE MaxSpeed + P2SpeedUp)
  /\ Len(host.timers) <= MaxTimers
  /\ Becomes(Play([Game EXCEPT !.host.rafs = host.rafs - 1]))
  /\ UNCHANGED <<sp, spMoved, bt>>

KeyDown ==
  /\ \E code \in Codes :
        IF code \in Counted
          THEN /\ host.events < MaxEvents
               /\ Becomes(HandleKeyboardInput(Received, "keydown", code))
          ELSE Becomes(HandleKeyboardInput(Game, "keydown", code))
  /\ UNCHANGED <<sp, spMoved, bt>>

KeyUp ==
  /\ \E code \in Codes :
        IF code \in Counted
          THEN /\ host.events < MaxEvents
               /\ Becomes(HandleKeyboardInput(Received, "keyup", code))
          ELSE Becomes(HandleKeyboardInput(Game, "keyup", code))
  /\ UNCHANGED <<sp, spMoved, bt>>

MouseMove ==
  /\ host.events < MaxEvents
  /\ \E y \in MouseYs : Becomes(HandleMouseMove(Received, y))
  /\ UNCHANGED <<sp, spMoved, bt>>

TouchMove ==
  /\ host.events < MaxEvents
  /\ \E y \in TouchYs : Becomes(HandleTouchMove(Received, y))
  /\ UNCHANGED <<sp, spMoved, bt>>

\* a click on the overlay; the start button is hit only while it is shown
Click ==
  /\ \E target \in Targets :
        /\ target = "button" => overlay.button
        /\ Becomes(HandleClicks(Game, target))
  /\ UNCHANGED <<sp, spMoved, bt>>

\* handleResize()
Resize ==
  /\ Becomes(Reset(Game))
  /\ UNCHANGED <<sp, spMoved, bt>>

KojiChange ==
  /\ host.events < MaxEvents
  /\ host.loads + host.rafs <= MaxLoops
  /\ \E winScore \in WinScores : Becomes(ConfigChange(Received, winScore))
  /\ UNCHANGED <<sp, spMoved, bt>>

AssetsLoaded ==
  /\ host.loads > 0
  /\ Becomes(Loaded(Game))
  /\ UNCHANGED <<sp, spMoved, bt>>

\* the clock advances by one unit; it does not pass a timer that is due
Elapse ==
  /\ host.lag < MaxLag
  /\ DueTimers(Game) = {}
  /\ host' = [host EXCEPT !.lag = host.lag + 1,
                          !.timers = [i \in 1..Len(host.timers) |->
                                        [host.timers[i] EXCEPT !.left = @ - 1]]]
  /\ UNCHANGED <<state, input, input2, player1, player2, ball, frame, overlay>>
  /\ UNCHANGED <<sp, spMoved, bt>>

\* the due timer set first runs its callback
TimerFire ==
  /\ DueTimers(Game) # {}
  /\ Becomes(Fire(Game, CHOOSE i \in DueTimers(Game) : \A j \in DueTimers(Game) : i <= j))
  /\ UNCHANGED <<sp, spMoved, bt>>

Next ==
  \/ Tick
  \/ KeyDown
  \/ KeyUp
  \/ MouseMove
  \/ TouchMove
  \/ Click
  \/ Resize
  \/ KojiChange
  \/ AssetsLoaded
  \/ Elapse
  \/ TimerFire

Spec == Init /\ [][Next]_vars

\* every paddle move the next tick makes from this state is computed by the
\* doubles of the code as it is here, and is a whole number of pixels
ArithmeticExact ==
  LET lo == Screen.top
      hi == Screen.bottom - player1.height
  IN /\ input.current = "mouse" =>
          AxisExact(player1.y, PointerAxis(player1, input.mouseY), player1.speed, 1, lo, hi)
     /\ input.current = "touch" =>
          AxisExact(player1.y, PointerAxis(player1, input.touchY), player1.speed, 1, lo, hi)
     /\ ComputerMoves(Game) =>
          AxisExact(player2.y, ComputerAxis(ball, player2), player2.speed, frame.scale, lo, hi)


(***************************************************************************)
(* A sprite on its own: Sprite.move, setX, setY and setBounds applied to   *)
(* sprites of small sizes at positions inside and outside their bounds,    *)
(* and to the paddle of the clamping scenario (y = 100 in bounds 0..200,   *)
(* height 50, speed 10).                                                   *)
(*                                                                         *)
(* setBounds takes an object that may lack fields: the bounds it does not  *)
(* name become undefined.  sp.undef is the set of the undefined bounds     *)
(* (the field of such a bound is kept at 0), and sp.nanx / sp.nany say     *)
(* that x and cx / y and cy are NaN (the fields are kept at 0), which is   *)
(* what a move against an undefined bound can give.                        *)
(***************************************************************************)
SpMax == 4

BoundNames == {"top", "right", "bottom", "left"}

\* the field f of the object b, 0 where b has no such field
FieldOr0(b, f) == IF f \in DOMAIN b THEN b[f] ELSE 0

\* setBounds(b): all four bounds are written, those b lacks as undefined
SetBounds(s, b) ==
  [s EXCEPT !.top = FieldOr0(b, "top"), !.right = FieldOr0(b, "right"),
            !.bottom = FieldOr0(b, "bottom"), !.left = FieldOr0(b, "left"),
            !.undef = BoundNames \ DOMAIN b]

\* the sprite the constructor makes of s and the bounds object b
WithBounds(s, b) ==
  SetBounds(s @@ [top |-> 0, right |-> 0, bottom |-> 0, left |-> 0,
                  undef |-> {}, nanx |-> FALSE, nany |-> FALSE], b)

\* One axis of Sprite.move for a position that may be NaN and bounds that
\* may be undefined; the result is [v, nan].  The candidate is NaN, -Infinity,
\* Infinity or finite; a comparison with NaN or undefined is false, so the
\* candidate is kept only if both bounds are defined, and otherwise the
\* result is lo if the candidate is known to be below it and else
\* right - width (bottom - height), which is NaN for an undefined bound.
MoveAxisAny(pos, nan, a, speed, m, lo, loDef, hi, hiDef) ==
  IF ~nan /\ loDef /\ hiDef
    THEN [v |-> MoveAxis(pos, a, speed, m, lo, hi), nan |-> FALSE]
  ELSE LET n    == IF a.d < 0 THEN -a.n ELSE a.n
           d    == Abs(a.d)
           kind == IF nan THEN "nan"
                   ELSE IF a.d # 0 THEN "finite"
                   ELSE IF a.n = 0 \/ speed * m = 0 THEN "nan"
                   ELSE IF (a.n < 0) = (speed * m > 0) THEN "-inf" ELSE "inf"
           cand == IF n = 0 THEN pos * d ELSE pos * d + n * speed * m
           below == loDef /\ (kind = "-inf" \/ (kind = "finite" /\ cand < lo * d))
       IN IF below THEN [v |-> lo, nan |-> FALSE]
          ELSE IF hiDef THEN [v |-> hi, nan |-> FALSE]
          ELSE [v |-> 0, nan |-> TRUE]

\* setX / setY on a sprite whose position may have been NaN
SetXAny(s, r) ==
  IF r.nan THEN [s EXCEPT !.x = 0, !.cx = 0, !.nanx = TRUE]
  ELSE [SetX(s, r.v) EXCEPT !.nanx = FALSE]

SetYAny(s, r) ==
  IF r.nan THEN [s EXCEPT !.y = 0, !.cy = 0, !.nany = TRUE]
  ELSE [SetY(s, r.v) EXCEPT !.nany = FALSE]

\* Sprite.move(ax, ay, m) against the sprite's own bounds
MoveAny(s, ax, ay, m) ==
  LET rx == MoveAxisAny(s.x, s.nanx, ax, s.speed, m,
                        s.left, "left" \notin s.undef,
                        s.right - s.width, "right" \notin s.undef)
      ry == MoveAxisAny(s.y, s.nany, ay, s.speed, m,
                        s.top, "top" \notin s.undef,
                        s.bottom - s.height, "bottom" \notin s.undef)
  IN SetYAny(SetXAny(s, rx), ry)

\* the objects given to setBounds: the bounds of the small sprites, wider
\* ones, ones narrower than the sprite, and an object with one field
BoundsArgs ==
  {[top |-> 0, right |-> SpMax, bottom |-> SpMax, left |-> 0],
   [top |-> 0, right |-> 2 * SpMax + 2, bottom |-> SpMax, left |-> 0],
   [top |-> 0, right |-> 1, bottom |-> SpMax, left |-> 0],
   [right |-> 2 * SpMax + 2]}

ScenarioPaddle ==
  WithBounds(NewSprite(0, 100, 20, 50, 10),
             [top |-> 0, right |-> 20, bottom |-> 200, left |-> 0])

SmallSprites ==
  {WithBounds(NewSprite(x, y, w, h, speed),
              [top |-> 0, right |-> SpMax, bottom |-> SpMax, left |-> 0]) :
     x \in {-1, 1, SpMax + 1}, y \in {-1, 2, SpMax + 1},
     w \in {2}, h \in {2, SpMax + 2}, speed \in {1, 3}}

\* the axis values: -1, 0, 1, a fraction, and Infinity, -Infinity and NaN
SpAxes == {Whole(-1), Whole(0), Whole(1), Ax(-3, 2), Ax(1, 0), Ax(-1, 0), Ax(0, 0)}

SpScales == {-1, 0, 1, 2}

SpriteInit ==
  /\ sp \in SmallSprites \cup {ScenarioPaddle}
  /\ spMoved = FALSE
  /\ bt = NoBall
  /\ Holds(NewGame(FALSE, 1))

SpriteMove ==
  /\ \E ax \in SpAxes, ay \in SpAxes, m \in SpScales :
        /\ (~sp.nanx /\ {"left", "right"} \cap sp.undef = {}) =>
              AxisExact(sp.x, ax, sp.speed, m, sp.left, sp.right - sp.width)
        /\ (~sp.nany /\ {"top", "bottom"} \cap sp.undef = {}) =>
              AxisExact(sp.y, ay, sp.speed, m, sp.top, sp.bottom - sp.height)
        /\ sp' = MoveAny(sp, ax, ay, m)
  /\ spMoved' = TRUE
  /\ UNCHANGED <<gameVars, bt>>

SpriteSet ==
  /\ \E v \in {-1, 0, SpMax + 1} :
        \/ sp' = SetXAny(sp, [v |-> v, nan |-> FALSE])
        \/ sp' = SetYAny(sp, [v |-> v, nan |-> FALSE])
  /\ spMoved' = FALSE
  /\ UNCHANGED <<gameVars, bt>>

SpriteSetBounds ==
  /\ \E b \in BoundsArgs : sp' = SetBounds(sp, b)
  /\ spMoved' = FALSE
  /\ UNCHANGED <<gameVars, bt>>

SpriteNext == SpriteMove \/ SpriteSet \/ SpriteSetBounds

SpriteSpec == SpriteInit /\ [][SpriteNext]_vars

\* the sprite's width and height fit inside its bounds, which are numbers
Fits(s) ==
  /\ s.undef = {}
  /\ s.width <= s.right - s.left
  /\ s.height <= s.bottom - s.top

(***************************************************************************)
(* C1.  After Sprite.move, for every start position, axis, speed and       *)
(* scale, a sprite whose width and height fit inside its bounds lies       *)
(* inside them: left <= x <= right - width and top <= y <= bottom -        *)
(* height; a candidate outside snaps to the nearest edge.                  *)
(***************************************************************************)
C1_MoveStaysInBounds ==
  (spMoved /\ Fits(sp)) =>
     /\ ~sp.nanx /\ ~sp.nany
     /\ sp.left <= sp.x /\ sp.x <= sp.right - sp.width
     /\ sp.top <= sp.y /\ sp.y <= sp.bottom - sp.height

\* the paddle of the scenario has been moved up to the top edge
C1_Witness ==
  /\ spMoved
  /\ sp.height = 50 /\ sp.bottom = 200
  /\ sp.y = 0


(***************************************************************************)
(* The game: properties                                                    *)
(***************************************************************************)
\* The clock runs and a due timer runs its callback; every control is in
\* use, with at most MaxFairEvents counted events on a page.
FairKeyDown == KeyDown /\ host'.events <= MaxFairEvents

FairKeyUp == KeyUp /\ host'.events <= MaxFairEvents

FairMouseMove == MouseMove /\ host'.events <= MaxFairEvents

FairTouchMove == TouchMove /\ host'.events <= MaxFairEvents

FairKojiChange == KojiChange /\ host'.events <= MaxFairEvents

FairNext ==
  \/ Tick
  \/ FairKeyDown
  \/ FairKeyUp
  \/ FairMouseMove
  \/ FairTouchMove
  \/ Click
  \/ Resize
  \/ FairKojiChange
  \/ AssetsLoaded
  \/ Elapse
  \/ TimerFire

FairSpec == Init /\ [][FairNext]_vars /\ WF_vars(Elapse) /\ WF_vars(TimerFire)

\* a step that begins a session: the page is loaded anew, or create() runs
SessionStarts == ~host'.created \/ AssetsLoaded

ResetPending == \E i \in 1..Len(host.timers) : host.timers[i].kind = "reset"

LaunchPending ==
  \E i \in 1..Len(host.timers) : host.timers[i].kind = "launch" /\ host.timers[i].live

AllowedTransitions ==
  {<<"loading", "ready">>, <<"ready", "play">>,
   <<"play", "win-player1">>, <<"play", "win-player2">>}

(***************************************************************************)
(* C2.  Within a session state.current changes only along loading ->       *)
(* ready -> play -> win-player1 or win-player2; a win state is left by no  *)
(* tick, key or click (start button, pause and mute included), only by     *)
(* the reset that begins a new session.                                    *)
(***************************************************************************)
C2_FixedTransitions ==
  [][state'.current # state.current =>
       SessionStarts \/ <<state.current, state'.current>> \in AllowedTransitions]_vars

(***************************************************************************)
(* C3.  A tick that runs the win check with both scores equal to winScore  *)
(* ends with state.current = win-player1.                                  *)
(***************************************************************************)
C3_TieGoesToPlayer1 ==
  [][(state.current = "play"
        /\ player1.score = state.winScore /\ player2.score = state.winScore
        /\ Tick)
       => state'.current = "win-player1"]_vars

(***************************************************************************)
(* C4 as stated.  A tick in which a score reaches winScore ends with       *)
(* state.current the win state of that player.                             *)
(***************************************************************************)
C4_WinInScoringTick ==
  [][(state.current = "play"
        /\ player2.score # state.winScore /\ player2'.score = state.winScore
        /\ Tick)
       => state'.current = "win-player2"]_vars

(***************************************************************************)
(* C4, amended.  The win check runs at the head of the play block, before  *)
(* the scoring: a tick that begins with current = play and neither score   *)
(* at winScore ends with current = play, also when a score reaches         *)
(* winScore in it; a tick that begins with current = play and              *)
(* player2.score = winScore ends in win-player2, and one that begins with  *)
(* only player1.score = winScore ends in win-player1.                      *)
(***************************************************************************)
C4_WinInNextTick ==
  [][(state.current = "play" /\ Tick) =>
       /\ (player1.score # state.winScore /\ player2.score # state.winScore)
             => state'.current = "play"
       /\ player2.score = state.winScore => state'.current = "win-player2"
       /\ (player1.score = state.winScore /\ player2.score # state.winScore)
             => state'.current = "win-player1"]_vars

\* a tick has brought player2.score to winScore and current is still play
C4_Witness ==
  /\ state.current = "play"
  /\ state.winScore > 0
  /\ player2.score = state.winScore
  /\ ~ball.launched

(***************************************************************************)
(* C5.  Within a session no score decreases; a score changes only in a     *)
(* tick that runs the play block with the launched ball at its left or     *)
(* right bound, in which exactly one score grows by exactly 1 and the ball *)
(* is stopped, so that the ticks that follow do not count the crossing     *)
(* again.                                                                  *)
(***************************************************************************)
C5_ScoresCountCrossings ==
  [][\/ player1'.score = player1.score /\ player2'.score = player2.score
     \/ SessionStarts
     \/ /\ state.current = "play"
        /\ AtLeftBound(ball) \/ AtRightBound(ball)
        /\ ~ball'.launched
        /\ Tick
        /\ \/ player1'.score = player1.score + 1 /\ player2'.score = player2.score
           \/ player1'.score = player1.score /\ player2'.score = player2.score + 1]_vars

\* a crossing at the left bound has been counted, the reset it scheduled is
\* due, and a tick has run since: the score is still 1 and the ball stopped
C5_Witness ==
  /\ host.created
  /\ player1.score + player2.score = 1
  /\ ~ball.launched
  /\ ball.x = BallBounds.left
  /\ \E i \in DueTimers(Game) : host.timers[i].kind = "reset"
  /\ host.lag = 0

(***************************************************************************)
(* C6.  A tick that runs the play block with the launched ball at the left *)
(* bound adds 1 to player1.score, leaves player2.score, sets ball.speed to *)
(* the configured speed and schedules a reset.                             *)
(***************************************************************************)
C6_LeftBoundScoresPlayer1 ==
  [][(state.current = "play" /\ AtLeftBound(ball) /\ Tick) =>
       /\ player1'.score = player1.score + 1
       /\ player2'.score = player2.score
       /\ ball'.speed = CfgBallSpeed
       /\ Len(host'.timers) > Len(host.timers)
       /\ host'.timers[Len(host'.timers)] = ResetTimer]_vars

(***************************************************************************)
(* C7.  A tick that runs the play block with the launched ball at the      *)
(* right bound adds 1 to player2.score, leaves player1.score, sets         *)
(* ball.speed to the configured speed, stops the ball and schedules        *)
(* nothing, neither a launch nor a reset; and a stopped ball is launched   *)
(* only by a key or a click.                                               *)
(***************************************************************************)
C7_RightBoundScoresPlayer2 ==
  /\ [][(state.current = "play" /\ AtRightBound(ball) /\ Tick) =>
          /\ player2'.score = player2.score + 1
          /\ player1'.score = player1.score
          /\ ball'.speed = CfgBallSpeed
          /\ ~ball'.launched /\ ball'.dx = 0
          /\ host'.timers = host.timers]_vars
  /\ [][(~ball.launched /\ ball'.launched) => (KeyDown \/ KeyUp \/ Click)]_vars

(***************************************************************************)
(* C8.  While state.paused is true no frame callback is pending, so no     *)
(* tick runs.                                                              *)
(***************************************************************************)
C8_NoFrameWhilePaused == state.paused => host.rafs = 0

(***************************************************************************)
(* C9.  A scheduled reset fires and ends the session, whatever pause or    *)
(* mute toggles happen in between: a step that toggles paused or muted     *)
(* within the session leaves the pending timers as they are, and a pending *)
(* reset leads to a new session.                                           *)
(***************************************************************************)
C9_ResetFires ==
  /\ [][(host'.created /\ (state'.paused # state.paused \/ state'.muted # state.muted))
          => host'.timers = host.timers]_vars
  /\ (ResetPending ~> ~host.created)

\* a reset is pending and the game is paused
C9_Witness == ResetPending /\ state.paused /\ host.rafs = 0

(***************************************************************************)
(* C10.  After the ball crossed the left bound with no second human        *)
(* player, the delayed launch fires before the session ends: no timer      *)
(* callback ends the session while that launch is pending.                 *)
(***************************************************************************)
C10_RelaunchBeforeSessionEnds ==
  [][(TimerFire /\ LaunchPending) => host'.created]_vars


(***************************************************************************)
(* A ball on its own: Ball.launch, the timer of a delayed launch, stop,    *)
(* move and collidesWith applied to small balls and paddles and to the     *)
(* ball and paddle of the collision scenario (both centred at (400, 300),  *)
(* the paddle 20 x 100, and the ball centred at (500, 300)).  bt holds the *)
(* ball, its pending launch timers with the arguments of their calls, the  *)
(* last operation with its arguments, the ball before it, and whether it   *)
(* repeats the launch before it.                                           *)
(***************************************************************************)
BtMaxX == 6

BtMaxTimers == 1

BtBounds == [top |-> 0, right |-> 8, bottom |-> 6, left |-> -2]

\* new Ball(...) at (x, y): dx = -1, launched = false; dy is 0 in the
\* constructor and -1 in the line commented out beside it
TestBall(x, y, size, dy) ==
  [dx |-> -1, dy |-> dy, launched |-> FALSE] @@ NewSprite(x, y, size, size, 1)

TestBalls ==
  {TestBall(x, 2, 2, dy) : x \in {0, 3}, dy \in {-1, 0}}
    \cup {TestBall(395, 295, 10, 0), TestBall(495, 295, 10, 0)}

ScenarioEntity == NewSprite(390, 250, 20, 100, 50)

TestEntities == {NewSprite(2, 1, 2, 4, 50), ScenarioEntity}

NoArg == [delay |-> 0, dx |-> 0, offset |-> 0, m |-> 0]

BtInit ==
  /\ \E b \in TestBalls :
        bt = [op |-> "new", arg |-> NoArg, again |-> FALSE,
              ball |-> b, was |-> b, timers |-> <<>>, args |-> <<>>,
              hit |-> FALSE, ent |-> ScenarioEntity]
  /\ sp = NoSprite
  /\ spMoved = FALSE
  /\ Holds(NewGame(FALSE, 1))

\* the record after an operation op with arguments arg has made the ball b;
\* again: the operation is a launch without delay with the arguments of the
\* launch without delay before it
BtAfter(t, op, arg, b) ==
  [t EXCEPT !.op = op, !.arg = arg,
            !.again = op = "launch" /\ t.op = "launch" /\ arg = t.arg
                        /\ arg.delay = 0,
            !.ball = b, !.was = t.ball,
            !.hit = FALSE, !.ent = ScenarioEntity]

\* launch(delay, dx, offset) that leaves a launched ball as it is
BtLaunchGuarded(t, delay, dx, offset) ==
  LET arg == [delay |-> delay, dx |-> dx, offset |-> offset, m |-> 0]
      off == BallTotalOffset(t.ball, dx, offset)
  IN IF t.ball.launched THEN BtAfter(t, "launch", arg, t.ball)
     ELSE BtAfter(t, "launch", arg, BallLaunchNow(BallStop(t.ball), off, dx))

\* launch(delay, dx, offset): a delay of 0 stands for null and 0
BtLaunch(t, delay, dx, offset) ==
  LET arg == [delay |-> delay, dx |-> dx, offset |-> offset, m |-> 0]
      off == BallTotalOffset(t.ball, dx, offset)
  IN IF delay = 0
       THEN BtAfter(t, "launch", arg, BallLaunchNow(BallStop(t.ball), off, dx))
       ELSE [BtAfter(t, "launch", arg, BallStop(t.ball)) EXCEPT
               !.timers = Append(t.timers, LaunchTimer(delay, off, dx)),
               !.args = Append(t.args, arg)]

BtDue(t) == {i \in 1..Len(t.timers) : t.timers[i].left = 0}

Without(q, i) == [j \in 1..(Len(q) - 1) |-> IF j < i THEN q[j] ELSE q[j + 1]]

BallLaunch ==
  /\ Abs(bt.ball.x) <= BtMaxX
  /\ \E delay \in {0, 2}, dx \in {-1, 0, 1}, offset \in {0, 2} :
        /\ delay > 0 => Len(bt.timers) < BtMaxTimers
        /\ bt' = BtLaunch(bt, delay, dx, offset)
  /\ UNCHANGED <<gameVars, sp, spMoved>>

BallElapse ==
  /\ bt.timers # <<>>
  /\ BtDue(bt) = {}
  /\ bt' = [BtAfter(bt, "elapse", NoArg, bt.ball) EXCEPT
              !.timers = [i \in 1..Len(bt.timers) |->
                            [bt.timers[i] EXCEPT !.left = @ - 1]]]
  /\ UNCHANGED <<gameVars, sp, spMoved>>

BallTimerFire ==
  /\ BtDue(bt) # {}
  /\ LET i == CHOOSE k \in BtDue(bt) : \A j \in BtDue(bt) : k <= j
         t == bt.timers[i]
     IN bt' = [BtAfter(bt, "fire", bt.args[i], BallLaunchNow(bt.ball, t.off, t.dx))
                 EXCEPT !.timers = Without(bt.timers, i),
                        !.args = Without(bt.args, i)]
  /\ UNCHANGED <<gameVars, sp, spMoved>>

BallStopped ==
  /\ bt' = BtAfter(bt, "stop", NoArg, BallStop(bt.ball))
  /\ UNCHANGED <<gameVars, sp, spMoved>>

BallMoved ==
  /\ \E m \in {0, 1} :
        bt' = BtAfter(bt, "move", [NoArg EXCEPT !.m = m],
                      BallMove(bt.ball, m, BtBounds))
  /\ UNCHANGED <<gameVars, sp, spMoved>>

BallCollides ==
  /\ \E e \in TestEntities :
        bt' = [BtAfter(bt, "collides", NoArg, bt.ball) EXCEPT
                 !.hit = CollidesWith(bt.ball, e), !.ent = e]
  /\ UNCHANGED <<gameVars, sp, spMoved>>

BallNext ==
  \/ BallLaunch
  \/ BallElapse
  \/ BallTimerFire
  \/ BallStopped
  \/ BallMoved
  \/ BallCollides

BallSpec == BtInit /\ [][BallNext]_vars


\* the x of the ball before the operation, moved by the jump of the arguments
Jumped(t) == t.was.x + (t.arg.offset + t.was.width) * t.arg.dx

(***************************************************************************)
(* C11.  launch(delay, dx, offset) without a delay sets launched, adds     *)
(* (offset + width) * dx to x and sets dx, all in the call.  With a delay  *)
(* the call leaves the ball not launched and x where it was, the time that *)
(* passes changes nothing on the ball, and the timer, when it fires, makes *)
(* the three changes.                                                      *)
(***************************************************************************)
C11_LaunchNowOrLater ==
  /\ (bt.op = "launch" /\ bt.arg.delay = 0) =>
        bt.ball.launched /\ bt.ball.x = Jumped(bt) /\ bt.ball.dx = bt.arg.dx
  /\ (bt.op = "launch" /\ bt.arg.delay > 0) =>
        ~bt.ball.launched /\ bt.ball.x = bt.was.x
  /\ bt.op = "elapse" => bt.ball = bt.was
  /\ bt.op = "fire" =>
        bt.ball.launched /\ bt.ball.x = Jumped(bt) /\ bt.ball.dx = bt.arg.dx

\* the timer of a delayed launch to the right has fired and moved the ball
C11_Witness ==
  /\ bt.op = "fire"
  /\ bt.arg.delay > 0 /\ bt.arg.dx = 1 /\ bt.arg.offset > 0
  /\ bt.ball.x > bt.was.x

(***************************************************************************)
(* C12.  stop() sets launched = false and dx = 0 and leaves dy, x and y;   *)
(* move(scale) of a stopped ball changes nothing, for every scale.         *)
(***************************************************************************)
C12_StopHoldsTheBall ==
  /\ bt.op = "stop" =>
        /\ ~bt.ball.launched /\ bt.ball.dx = 0
        /\ bt.ball.dy = bt.was.dy /\ bt.ball.x = bt.was.x /\ bt.ball.y = bt.was.y
  /\ (bt.op = "move" /\ ~bt.was.launched) => bt.ball = bt.was

\* a ball with a vertical direction, stopped off the bounds, has been moved
\* with a positive scale
C12_Witness ==
  /\ bt.op = "move" /\ bt.arg.m > 0
  /\ ~bt.was.launched /\ bt.was.dx = 0 /\ bt.was.dy # 0
  /\ bt.ball.x > BtBounds.right

(***************************************************************************)
(* C13 as stated.  launch without delay called twice in a row with the     *)
(* same dx and offset leaves launched, x and dx as the first call left     *)
(* them.                                                                   *)
(***************************************************************************)
C13_RelaunchIdempotent ==
  bt.again =>
     /\ bt.ball.launched = bt.was.launched
     /\ bt.ball.x = bt.was.x
     /\ bt.ball.dx = bt.was.dx

(***************************************************************************)
(* C13, amended.  The second of two equal launches without delay applies   *)
(* the jump again: launched and dx are as the first call left them, and x  *)
(* is (offset + width) * dx further.                                       *)
(***************************************************************************)
C13_RelaunchJumpsAgain ==
  bt.again =>
     /\ bt.ball.launched = bt.was.launched
     /\ bt.ball.dx = bt.was.dx
     /\ bt.ball.x = bt.was.x + (bt.arg.offset + bt.ball.width) * bt.arg.dx

\* the second of two equal launches to the left has moved the ball again
C13_Witness == bt.again /\ bt.arg.dx = -1 /\ bt.ball.x < bt.was.x

(***************************************************************************)
(* C14.  collidesWith(entity) is true exactly when entity.y < ball.cy <    *)
(* entity.y + entity.height and |entity.cx - ball.cx| < (entity.width +    *)
(* ball.width) / 2, both strict.                                           *)
(***************************************************************************)
C14_CollidesExactly ==
  bt.op = "collides" =>
     (bt.hit <=>
        /\ bt.ent.y < bt.ball.cy
        /\ bt.ball.cy < bt.ent.y + bt.ent.height
        /\ \/ 2 * (bt.ent.cx - bt.ball.cx) < bt.ent.width + bt.ball.width
              /\ bt.ent.cx >= bt.ball.cx
           \/ 2 * (bt.ball.cx - bt.ent.cx) < bt.ent.width + bt.ball.width
              /\ bt.ent.cx < bt.ball.cx)

\* the ball and the paddle of the scenario, both centred at (400, 300), collide
C14_Witness ==
  /\ bt.op = "collides" /\ bt.hit
  /\ bt.ent = ScenarioEntity
  /\ bt.ball.cx = 400 /\ bt.ball.cy = 300

(***************************************************************************)
(* The game: the paddles, the clock and the flags                          *)
(***************************************************************************)
\* the paddle the collision query of this tick returns, after the win check,
\* the moves of the paddles and the bounce off the ceiling or floor
TickHit == Collided(BounceY(MovePlayer2(MovePlayer1(CheckWinner(Game)))))

(***************************************************************************)
(* C15.  After a tick in which the ball hits a paddle the ball points away *)
(* from that paddle and is faster by the increment of the paddle: dx = -1  *)
(* and speed + 1 after a hit on player1, dx = +1 and speed + 10 after a    *)
(* hit on player2.                                                         *)
(***************************************************************************)
C15_HitTurnsBallAway ==
  [][(state.current = "play" /\ Tick) =>
       /\ TickHit = "player1" =>
             ball'.dx = -1 /\ ball'.speed = ball.speed + P1SpeedUp
       /\ TickHit = "player2" =>
             ball'.dx = 1 /\ ball'.speed = ball.speed + P2SpeedUp]_vars

\* the centre the constructor, setX and setY compute for the position of s
Centered(s) == s.cx = s.x + Half(s.width) /\ s.cy = s.y + Half(s.height)

(***************************************************************************)
(* C16.  In every reachable state the centre of both paddles and of the    *)
(* ball is the centre of its position: cx = x + width / 2 and              *)
(* cy = y + height / 2, also after the jump of a launch.                   *)
(***************************************************************************)
C16_CentersFollowPosition ==
  Centered(player1) /\ Centered(player2) /\ Centered(ball)

(***************************************************************************)
(* C17.  The scale of the first tick after a resume holds no time spent    *)
(* paused: while the game stays paused within a session no frame delta is  *)
(* measured (frame keeps the rate and scale it had when the pause began),  *)
(* and the step that toggles pause off sets frame.rate to 0 and computes   *)
(* frame.scale from the rate measured before the pause.                    *)
(***************************************************************************)
C17_ResumeDropsPausedTime ==
  [][host'.created =>
       /\ (state.paused /\ state'.paused) => frame' = frame
       /\ (state.paused /\ ~state'.paused) =>
             frame'.rate = 0 /\ frame'.scale = FrameScale(frame.rate)]_vars

\* a step within a session that toggles paused or muted
Toggles ==
  host'.created /\ (state'.paused # state.paused \/ state'.muted # state.muted)

(***************************************************************************)
(* C18.  A step that toggles paused or muted within a session leaves       *)
(* state.current, the win score, both scores and the position of both      *)
(* paddles and of the ball as they are; it leaves the paddles and the ball *)
(* unchanged in every field.                                               *)
(***************************************************************************)
C18_TogglesKeepTheGame ==
  [][Toggles =>
       /\ state'.current = state.current
       /\ state'.winScore = state.winScore
       /\ player1' = player1
       /\ player2' = player2
       /\ ball' = ball]_vars

\* the game is paused and muted in mid-play: the launched ball has left
\* player1 and is in flight
C18_Witness ==
  /\ state.current = "play"
  /\ state.paused
  /\ state.muted
  /\ ball.launched
  /\ ball.x < player1.x

\* player2 where the keys of the second player put it in this tick
KeyedPlayer2 ==
  Move(player2, Whole(0), Whole(KeyAxis(input2)), frame.scale, Screen)

(***************************************************************************)
(* C19.  A tick moves player2 only in the play block, and there by the     *)
(* computer only if no second human is active, the ball is launched and    *)
(* ball.dx < 0; once input2.active is true a tick puts player2 where the   *)
(* W and S keys put it, whatever the ball does, and leaves it where it is  *)
(* when neither or both keys are down.                                     *)
(***************************************************************************)
C19_ComputerOrSecondHuman ==
  [][Tick =>
       /\ player2'.y # player2.y =>
             /\ state.current = "play"
             /\ input2.active \/ (ball.launched /\ ball.dx < 0)
       /\ (state.current = "play" /\ input2.active) =>
             player2'.y = KeyedPlayer2.y /\ player2'.cy = KeyedPlayer2.cy
       /\ (state.current = "play" /\ input2.active /\ KeyAxis(input2) = 0) =>
             player2'.y = player2.y]_vars

\* a second human is active and holds S while the launched ball flies to
\* the left with ball.y / 2 < player2.y, where the computer would move the
\* paddle up: player2 is at the bottom of the screen
C19_Witness ==
  /\ state.current = "play"
  /\ input2.active
  /\ input2.down /\ ~input2.up
  /\ ball.launched /\ ball.dx < 0
  /\ ball.y < 2 * player2.y
  /\ player2.y = Screen.bottom - player2.height
  /\ frame.scale > 0

\* -(limit / 2) <= a <= limit / 2 as JavaScript compares: false for a NaN
\* limit and for an axis that is NaN, true for no infinite axis
Clamped(a, limit) ==
  /\ ~limit.nan
  /\ a.d # 0
  /\ -limit.v * Abs(a.d) <= 2 * (IF a.d < 0 THEN -a.n ELSE a.n)
  /\ 2 * (IF a.d < 0 THEN -a.n ELSE a.n) <= limit.v * Abs(a.d)

(***************************************************************************)
(* C20.  Whenever the computer moves player2, the axis it passes to move   *)
(* lies within the difficulty read from the settings:                      *)
(* -(difficulty / 2) <= axis <= difficulty / 2.                            *)
(***************************************************************************)
C20_AxisWithinDifficulty ==
  (state.current = "play" /\ ComputerMoves(Game)) =>
     Clamped(ComputerAxis(ball, player2), Difficulty)

(***************************************************************************)
(* The game: sessions, inputs and the frame loop                           *)
(***************************************************************************)
\* the step loads the page anew: document.location.reload()
Reloaded == Becomes(Reset(Game))

(***************************************************************************)
(* C21.  input2.active is false when a session begins; it becomes true     *)
(* only in a keydown that sets the W or S key of the second player, a W or *)
(* S key is never down with input2.active false, and once true it stays    *)
(* true after every key, mouse, touch, click, tick, load and timer step    *)
(* until the page is loaded anew.                                          *)
(***************************************************************************)
C21_SecondPlayerStaysActive ==
  /\ ~input2.active
  /\ [][/\ input2'.active => ~Reloaded
        /\ (~input2.active /\ input2'.active) =>
              KeyDown /\ (input2'.up \/ input2'.down)
        /\ (input2'.up \/ input2'.down) => input2'.active
        /\ (input2.active /\ ~input2'.active) => Reloaded]_vars

\* the second player is active with both keys released, in mid-play with
\* the ball in flight and a reset pending
C21_Witness ==
  /\ input2.active
  /\ ~input2.up /\ ~input2.down
  /\ state.current = "play"
  /\ ball.launched
  /\ ResetPending

\* the values of state.current
Currents == {"loading", "ready", "play", "win-player1", "win-player2"}

\* the guard of the ready block of play()
EnteredReady(G) == G.state.current = "ready" /\ G.state.prev = "loading"

(***************************************************************************)
(* C22.  setState records the prior current as prev, whatever it writes;   *)
(* the guard current = ready and prev = loading is true in exactly one run *)
(* of play() in a session: in the play() that create() calls when the      *)
(* first load completes, which shows the start button and leaves prev =    *)
(* ready.  It is true in no state a frame callback starts from, in no      *)
(* play() of a later create(), and current returns to loading only by a    *)
(* reload of the page.                                                     *)
(***************************************************************************)
C22_PrevRecordsCurrent ==
  /\ [](/\ \A c \in Currents :
              /\ SetCurrent(Game, c).state.prev = state.current
              /\ SetCurrent(Game, c).state.current = c
        /\ \A w \in WinScores :
              /\ SetWinScore(Game, w).state.prev = state.current
              /\ SetWinScore(Game, w).state.current = state.current
              /\ SetWinScore(Game, w).state.winScore = w
        /\ ~EnteredReady(Game))
  /\ [][/\ AssetsLoaded =>
              /\ EnteredReady(Create(Game)) <=> state.current = "loading"
              /\ state.current = "loading" =>
                    /\ state'.current = "ready"
                    /\ state'.prev = "ready"
                    /\ overlay'.button
        /\ state'.current = "loading" =>
              state.current = "loading" \/ Reloaded]_vars

\* the first load has completed and its play() has run the ready block:
\* the start button is shown and prev is ready
C22_Witness ==
  /\ host.created
  /\ host.loads = 0
  /\ state.current = "ready"
  /\ state.prev = "ready"
  /\ overlay.button
  /\ host.rafs = 1

(***************************************************************************)
(* C23.  A launch with direction dx = 0 is a no-op: called on a stopped    *)
(* ball, at once or when its timer fires, it leaves launched false and x   *)
(* and dx as they were, so that a ball on its own is never launched with   *)
(* dx = 0.                                                                 *)
(***************************************************************************)
C23_ZeroDirectionLaunchIsNoOp ==
  /\ (/\ \/ bt.op = "launch" /\ bt.arg.delay = 0
         \/ bt.op = "fire"
      /\ bt.arg.dx = 0
      /\ ~bt.was.launched) =>
        /\ ~bt.ball.launched
        /\ bt.ball.x = bt.was.x
        /\ bt.ball.dx = bt.was.dx
  /\ (bt.op # "none" /\ bt.ball.launched) => bt.ball.dx # 0

\* launched, x, y, dx and speed of a ball
BallCore(b) == <<b.launched, b.x, b.y, b.dx, b.speed>>

\* launched, x, y, dx and speed of the ball of the game after a relaunch from
\* the paddle p in direction dx
Relaunched(p, dx) ==
  <<TRUE, ball.x + (p.width + ball.width) * dx, p.y, dx, CfgBallSpeed>>

\* the ball is stopped in play on the right half, or on the rest of the screen
RightRelaunchDue ==
  state.current = "play" /\ ~ball.launched /\ ball.x > Screen.centerX

LeftRelaunchDue ==
  state.current = "play" /\ ~ball.launched /\ ~(ball.x > Screen.centerX)

(***************************************************************************)
(* C24.  A relaunch input changes the ball only when current is play and   *)
(* the ball is stopped.  In every state of a session that is not won, a    *)
(* Space keyup and an overlay click relaunch the ball from player1 if the  *)
(* stopped ball lies right of the centre and leave launched, x, y, dx and  *)
(* speed as they are otherwise; a ShiftLeft keydown relaunches it from     *)
(* player2 if the stopped ball does not lie right of the centre and leaves *)
(* them as they are otherwise.  No key or click step that does not reload  *)
(* the page changes the ball in another way.                               *)
(***************************************************************************)
C24_RelaunchOnlyStoppedInPlay ==
  /\ [](~IsWin(state.current) =>
          /\ BallCore(HandleKeyboardInput(Game, "keyup", "Space").ball) =
               IF RightRelaunchDue THEN Relaunched(player1, -1) ELSE BallCore(ball)
          /\ BallCore(HandleClicks(Game, "overlay").ball) =
               IF RightRelaunchDue THEN Relaunched(player1, -1) ELSE BallCore(ball)
          /\ BallCore(HandleKeyboardInput(Game, "keydown", "ShiftLeft").ball) =
               IF LeftRelaunchDue THEN Relaunched(player2, 1) ELSE BallCore(ball))
  /\ [][(ball' # ball /\ ~Reloaded /\ (KeyDown \/ KeyUp \/ Click)) =>
          \/ RightRelaunchDue /\ BallCore(ball') = Relaunched(player1, -1)
          \/ LeftRelaunchDue /\ BallCore(ball') = Relaunched(player2, 1)]_vars

\* the second player has relaunched the ball with ShiftLeft from the left
\* bound: it is launched to the right, one paddle and ball width from the
\* bound, at the height of player2
C24_Witness ==
  /\ state.current = "play"
  /\ input2.active
  /\ ball.launched
  /\ ball.dx = 1
  /\ ball.x = BallBounds.left + player2.width + ball.width
  /\ ball.y = player2.y
  /\ ~LaunchPending

(***************************************************************************)
(* C25.  No tick, input event or timer increments player1.score, so        *)
(* player1.score is 0 in every reachable state of a session and in no      *)
(* reachable state with winScore > 0 is current win-player1.               *)
(***************************************************************************)
C25_WinPlayer1Unreachable ==
  /\ player1.score = 0
  /\ state.winScore > 0 => state.current # "win-player1"

(***************************************************************************)
(* C26.  After any interleaving of ticks, pause toggles, start clicks and  *)
(* settings changes at most one frame callback is pending, and one is      *)
(* pending only while paused is false.                                     *)
(***************************************************************************)
C26_OneFrameLoop ==
  /\ host.rafs <= 1
  /\ host.rafs > 0 => ~state.paused

(***************************************************************************)
(* C27.  In every reachable state of the game a launched ball has dx = -1  *)
(* or dx = +1: the game launches with -1 or +1 only, a hit on player1 sets *)
(* -1, and what sets dx to 0 (stop, a hit on player2) leaves the ball      *)
(* stopped.  A stopped ball has dx = 0 once it has been launched or        *)
(* stopped, and the dx = -1 of its construction before.                    *)
(***************************************************************************)
C27_LaunchedBallHasDirection ==
  /\ ball.launched => ball.dx \in {-1, 1}
  /\ ~ball.launched => ball.dx \in {-1, 0}
  /\ \A i \in 1..Len(host.timers) :
        host.timers[i].kind = "launch" => host.timers[i].dx \in {-1, 1}

\* the ball is in flight to the right with no second human, past the
\* place where a launch from the left bound puts it
C27_Witness ==
  /\ state.current = "play"
  /\ ~input2.active
  /\ ball.launched
  /\ ball.dx = 1
  /\ ball.x > BallBounds.left + player2.width + ball.width

\* the ball satisfies collidesWith(player2) where the collision query of
\* this tick runs: after the win check, the moves of the paddles and the
\* bounce off the ceiling or floor
TickCollidesPlayer2 ==
  LET G == BounceY(MovePlayer2(MovePlayer1(CheckWinner(Game))))
  IN CollidesWith(G.ball, G.player2)

(***************************************************************************)
(* C28.  The collision handler of a tick does not look at ball.launched:   *)
(* in every tick with current = play in which the ball, launched or        *)
(* stopped, satisfies collidesWith(player2), the speed of the ball grows   *)
(* by 10, the ball is stopped and one more reset timer is pending; so      *)
(* each tick after a hit on player2 in which the stopped ball still        *)
(* overlaps player2 adds 10 and a reset timer again.                       *)
(***************************************************************************)
C28_EveryOverlapHitsPlayer2 ==
  [][(state.current = "play" /\ Tick /\ TickCollidesPlayer2) =>
       /\ ball'.speed = ball.speed + P2SpeedUp
       /\ ~ball'.launched
       /\ ball'.dx = 0
       /\ host'.timers = Append(host.timers, ResetTimer)]_vars

\* the stopped ball has been hit by player2 in two ticks: it is faster by
\* 20 than a launched ball can be configured and two resets are pending
C28_Witness ==
  /\ state.current = "play"
  /\ ~ball.launched
  /\ CollidesWith(ball, player2)
  /\ ball.speed >= CfgBallSpeed + 2 * P2SpeedUp
  /\ Len(host.timers) >= 2
  /\ \A i \in 1..Len(host.timers) : host.timers[i].kind = "reset"

==============================================================================
